---- MODULE Spec2Model ----
(***************************************************************************)
(* Model of package proc (yudaprama/proc): the process's own CPU           *)
(* percentage, RSS and VSS.                                                *)
(*                                                                         *)
(*   StatSampler    proc_linux.go    /proc/<pid>/stat parser + periodic()   *)
(*   CounterSession proc_windows.go  PDH query session + throttled Usage()  *)
(*                                                                         *)
(* The two backends are alternative builds of the same package, so each    *)
(* has its own specification: SpecStat and SpecCounter.                    *)
(***************************************************************************)
EXTENDS Integers, Sequences, FiniteSets, TLC

VARIABLES
    \* ---- proc_linux.go ----
    lastTotal,      \* var lastTotal int64
    lastSeconds,    \* var lastSeconds int64
    ipcpu,          \* var ipcpu int64 (atomic)
    timers,         \* number of pending time.AfterFunc(1s, periodic) timers
    statOut,        \* the caller's *pcpu, *rss, *vss
    statRet,        \* what the latest Usage call returned
    statPanic,      \* the process was aborted by a run-time panic
    \* history of the sampler (not read by the program)
    nSamples,       \* periodic executions that reached "Update last sample": 0, 1, 2 = two or more
    basis,          \* (delta total, delta seconds) of the latest tick whose elapsed seconds was > 0
    lastRun,        \* the latest periodic execution: did it sample, and its deltas
    fresh,          \* a Usage call has succeeded since the latest periodic execution
    prevPcpu,       \* *pcpu of the successful Usage call before the latest successful
                    \* one, when no periodic execution came between the two
    statIn,         \* what the latest Usage call read, when no periodic execution came since
    sane            \* every sample so far was well-formed and no total decreased

VARIABLES
    \* ---- proc_windows.go ----
    pcHandle,       \* var pcHandle PDH_HQUERY (0: never opened)
    counters,       \* pidCounter, cpuCounter, rssCounter, vssCounter: the query each was added to
    prevCPU, prevRss, prevVss,  \* the cached snapshot
    lastSampleTime, \* var lastSampleTime time.Time
    processPid,     \* var processPid int
    pcQueryLock,    \* var pcQueryLock sync.Mutex: its holder, or NoHolder
    initialSample,  \* var initialSample = true
    now,            \* the wall clock, in seconds
    pc,             \* per caller: "idle" (outside Usage, or waiting for the lock) or "sampling"
    out,            \* per caller: its *pcpu, *rss, *vss
    crashed,        \* the process was aborted by a run-time panic
    \* history of the session (not read by the program)
    nOpens,         \* queries opened so far
    nInitOk,        \* successful runs of initCounters
    cur,            \* the call that holds the lock: what it saw when it took the lock
    lastCall,       \* the latest call that returned
    prevKind,       \* how the call before it ended
    lastStartAt,    \* when the latest call that returned had been made
    lastDoneAt,     \* when the latest call returned
    lastGood,       \* the latest successful sample: when it returned, what it wrote
    everFailed,     \* some sample (lines 203-229) has failed
    collects        \* the latest call of PdhCollectQueryData and its distance to the one before

counterVars == <<pcHandle, counters, prevCPU, prevRss, prevVss, lastSampleTime,
                 processPid, pcQueryLock, initialSample, now, pc, out, crashed,
                 nOpens, nInitOk, cur, lastCall, prevKind, lastStartAt, lastDoneAt, lastGood, everFailed, collects>>

statVars == <<lastTotal, lastSeconds, ipcpu, timers, statOut, statRet, statPanic,
              nSamples, basis, lastRun, fresh, prevPcpu, statIn, sane>>

vars == <<statVars, counterVars>>

(***************************************************************************)
(* Bounds of the model.                                                    *)
(***************************************************************************)
MaxUptime == 3      \* sysinfo.Uptime ranges over 1..MaxUptime seconds
NCallers == 2       \* goroutines calling the CounterSession's Usage
MaxTime == 3        \* the wall clock runs from 0 to MaxTime seconds
MaxInstances == 2   \* same-named process instances on the host
MaxOpens == 2       \* queries the host lets the process open

Callers == 1..NCallers

(***************************************************************************)
(* Go integer arithmetic: / truncates toward zero, % has the dividend's    *)
(* sign.  (TLA+'s \div rounds toward minus infinity.)                      *)
(***************************************************************************)
Abs(x) == IF x < 0 THEN -x ELSE x

GoDiv(a, b) ==
    IF (a >= 0) = (b >= 0) THEN Abs(a) \div Abs(b) ELSE -(Abs(a) \div Abs(b))

GoRem(a, b) == a - b * GoDiv(a, b)

(***************************************************************************)
(* proc_linux.go: constants                                                *)
(***************************************************************************)
ticks == 100
utimePos == 13
stimePos == 14
startPos == 21
vssPos == 22
rssPos == 23
asciiZero == 48
asciiNine == 57

(***************************************************************************)
(* parseInt64: decimal positive numbers, -1 signals an error.  A field is  *)
(* a sequence of bytes.                                                    *)
(***************************************************************************)
RECURSIVE parseFrom(_, _, _)
parseFrom(d, i, n) ==
    IF i > Len(d) THEN n
    ELSE IF d[i] < asciiZero \/ d[i] > asciiNine THEN -1
    ELSE parseFrom(d, i + 1, n * 10 + (d[i] - asciiZero))

\* (mutant) a byte that is no digit is skipped
RECURSIVE parseSkipping(_, _, _)
parseSkipping(d, i, n) ==
    IF i > Len(d) THEN n
    ELSE IF d[i] < asciiZero \/ d[i] > asciiNine THEN parseSkipping(d, i + 1, n)
    ELSE parseSkipping(d, i + 1, n * 10 + (d[i] - asciiZero))

parseInt64Skipping(d) == parseSkipping(d, 1, 0)

parseInt64(d) == IF Len(d) = 0 THEN -1 ELSE parseFrom(d, 1, 0)

(***************************************************************************)
(* The stat pseudo-file as the kernel writes it: whitespace-separated      *)
(* fields, numbers in decimal.  fields[k] of the Go code (zero-based) is   *)
(* Field(fields, k) here.                                                  *)
(***************************************************************************)
RECURSIVE Digits(_)
Digits(n) == IF n < 10 THEN <<asciiZero + n>> ELSE Append(Digits(n \div 10), asciiZero + (n % 10))

Garbled == <<asciiZero + 1, 120>>       \* "1x": a field with a non-numeric byte

Field(fields, k) == fields[k + 1]

\* fields[k] is in range; otherwise the index expression panics
HasField(fields, k) == k + 1 <= Len(fields)

StatRecord(start, utime, stime, vsize, rss) ==
    [k \in 1..(rssPos + 1) |->
        CASE k = startPos + 1 -> start
          [] k = utimePos + 1 -> utime
          [] k = stimePos + 1 -> stime
          [] k = vssPos + 1 -> vsize
          [] k = rssPos + 1 -> rss
          [] OTHER -> Digits(0)]

StartFields == {Digits(150)}           \* the process started 1.5 s after boot
UtimeFields == {Digits(99), Digits(199), Garbled}
StimeFields == {Digits(1)}
VssFields == {Digits(8192)}
RssFields == {Digits(3), Garbled}

\* a record cut short: no fields at all, or every field up to vsize
NoFields == <<>>
UpToVsize == SubSeq(StatRecord(Digits(0), Digits(0), Digits(0), Digits(8192), Digits(3)), 1, rssPos)

\* what periodic's ioutil.ReadFile + bytes.Fields can yield ("err": the read failed)
PeriodicReads ==
    {[err |-> TRUE, fields |-> <<>>], [err |-> FALSE, fields |-> NoFields]} \cup
    {[err |-> FALSE, fields |-> StatRecord(s, u, k, Digits(8192), Digits(3))] :
        s \in StartFields, u \in UtimeFields, k \in StimeFields}

\* what Usage's ioutil.ReadFile + bytes.Fields can yield
UsageReads ==
    {[err |-> TRUE, fields |-> <<>>], [err |-> FALSE, fields |-> UpToVsize]} \cup
    {[err |-> FALSE, fields |-> StatRecord(Digits(0), Digits(0), Digits(0), v, r)] :
        v \in VssFields, r \in RssFields}

\* what syscall.Sysinfo can yield
Sysinfos ==
    {[err |-> TRUE, Uptime |-> 0]} \cup {[err |-> FALSE, Uptime |-> u] : u \in 1..MaxUptime}

(***************************************************************************)
(* Values of the CounterSession's history before its first call.           *)
(***************************************************************************)
ZeroTime == -100        \* the zero time.Time, long before the process started
NoHolder == 0           \* the unlocked sync.Mutex

NoFetch == [probe |-> "none", count |-> 0, fetch |-> "none", err |-> FALSE,
            panicked |-> FALSE, len |-> 0]
NoCall == [kind |-> "none", ret |-> "none", snap |-> [pcpu |-> 0, rss |-> 0, vss |-> 0],
           collected |-> FALSE, ranInit |-> FALSE, inWindow |-> FALSE, gap2 |-> FALSE,
           near |-> FALSE, same |-> FALSE, clean |-> FALSE, pidPresent |-> FALSE,
           kept |-> TRUE, tbl |-> <<>>, fetch |-> NoFetch]
NoCollect == [n |-> 0, at |-> 0, gap |-> 0, ok |-> FALSE, bothOk |-> FALSE, inInitCall |-> FALSE]
NoCur == [startAt |-> 0, ranInit |-> FALSE, inWindow |-> FALSE, gap2 |-> FALSE, near |-> FALSE]
NoGood == [none |-> TRUE]

(***************************************************************************)
(* periodic(): the sampling function.                                      *)
(***************************************************************************)
\* (mutant) the store also skips an elapsed time of one second
ShouldStoreAboveOne(seconds) == seconds > 1

\* (mutant) the store guards only against a division by zero
ShouldStoreNonZero(seconds) == seconds # 0

\* line 69: the estimate is stored only when the elapsed seconds are positive
ShouldStore(seconds) == seconds > 0

\* (mutant) the estimate scaled to percent instead of per-mille
CpuEstimatePercent(total, seconds) == GoDiv(GoDiv(total * 100, ticks), seconds)

\* line 70: (total*1000/ticks)/seconds, both divisions on int64
CpuEstimate(total, seconds) == GoDiv(GoDiv(total * 1000, ticks), seconds)

\* One execution of periodic() from the state (lt, ls, ip) = (lastTotal,
\* lastSeconds, ipcpu), with rd what ReadFile yields and si what Sysinfo
\* yields.  sampled: "Update last sample" was reached; rescheduled:
\* time.AfterFunc was reached.
periodicEffect(lt, ls, ip, rd, si) ==
    IF rd.err
    THEN [lastTotal |-> lt, lastSeconds |-> ls, ipcpu |-> ip,
          sampled |-> FALSE, rescheduled |-> FALSE, panicked |-> FALSE]
    ELSE IF ~(HasField(rd.fields, startPos) /\ HasField(rd.fields, utimePos)
              /\ HasField(rd.fields, stimePos))
    THEN [lastTotal |-> lt, lastSeconds |-> ls, ipcpu |-> ip,
          sampled |-> FALSE, rescheduled |-> FALSE, panicked |-> TRUE]
    ELSE IF si.err
    THEN [lastTotal |-> lt, lastSeconds |-> ls, ipcpu |-> ip,
          sampled |-> FALSE, rescheduled |-> FALSE, panicked |-> FALSE]
    ELSE LET pstart == parseInt64(Field(rd.fields, startPos))
             utime == parseInt64(Field(rd.fields, utimePos))
             stime == parseInt64(Field(rd.fields, stimePos))
             total == utime + stime
             seconds == si.Uptime - GoDiv(pstart, ticks)
             dTotal == total - lt
             dSeconds == seconds - ls
         IN [lastTotal |-> total, lastSeconds |-> seconds,
             ipcpu |-> IF ShouldStore(dSeconds) THEN CpuEstimate(dTotal, dSeconds) ELSE ip,
             sampled |-> TRUE, rescheduled |-> TRUE, panicked |-> FALSE]

\* (mutant) a second timer is started beside the first
SuccessorsDoubled(rescheduled) == IF rescheduled THEN 2 ELSE 0

\* line 73: the timers one execution starts
Successors(rescheduled) == IF rescheduled THEN 1 ELSE 0

NoBasis == [none |-> TRUE]
NoIn == [kind |-> "none", rss |-> <<>>, vss |-> <<>>]
NoPcpu == [none |-> TRUE]
NoRun == [sampled |-> FALSE, dTotal |-> 0, dSeconds |-> 0]
ZeroOut == [pcpu |-> [whole |-> 0, tenths |-> 0], rss |-> 0, vss |-> 0]

\* The history kept beside one execution of periodic with effect r from
\* (lt, ls): n samples so far, b the basis so far, lr the run before.  lastRun
\* keeps the deltas of the latest sample when a later execution takes none.
HistoryAfter(r, lt, ls, n, b, lr) ==
    IF r.sampled
    THEN [nSamples |-> IF n < 2 THEN n + 1 ELSE 2,
          lastRun |-> [sampled |-> TRUE, dTotal |-> r.lastTotal - lt,
                       dSeconds |-> r.lastSeconds - ls],
          basis |-> IF r.lastSeconds - ls > 0
                    THEN [none |-> FALSE, dTotal |-> r.lastTotal - lt,
                          dSeconds |-> r.lastSeconds - ls]
                    ELSE b]
    ELSE [nSamples |-> n, lastRun |-> [lr EXCEPT !.sampled = FALSE], basis |-> b]

\* a field of decimal digits only, at least one
IsDecimal(f) == Len(f) > 0 /\ \A i \in 1..Len(f) : f[i] \in asciiZero..asciiNine

\* The sample of an execution with effect r from the read rd is well-formed
\* and its total is not below lt, the total of the sample before.
SaneSample(r, rd, lt) ==
    r.sampled =>
        /\ IsDecimal(Field(rd.fields, startPos))
        /\ IsDecimal(Field(rd.fields, utimePos))
        /\ IsDecimal(Field(rd.fields, stimePos))
        /\ r.lastTotal >= lt

\* func init(): the package-level variables are zero and periodic() runs once.
InitStat ==
    \E rd \in PeriodicReads, si \in Sysinfos :
        LET r == periodicEffect(0, 0, 0, rd, si)
            h == HistoryAfter(r, 0, 0, 0, NoBasis, NoRun)
        IN /\ lastTotal = r.lastTotal
           /\ lastSeconds = r.lastSeconds
           /\ ipcpu = r.ipcpu
           /\ timers = Successors(r.rescheduled)
           /\ statPanic = r.panicked
           /\ statIn = NoIn
           /\ sane = SaneSample(r, rd, 0)
           /\ nSamples = h.nSamples
           /\ basis = h.basis
           /\ lastRun = h.lastRun
           /\ statOut = ZeroOut
           /\ statRet = "none"
           /\ fresh = FALSE
           /\ prevPcpu = NoPcpu
           \* a build without proc_windows.go
           /\ pcHandle = 0
           /\ counters = [pid |-> 0, cpu |-> 0, rss |-> 0, vss |-> 0]
           /\ prevCPU = 0 /\ prevRss = 0 /\ prevVss = 0
           /\ lastSampleTime = ZeroTime
           /\ processPid = 0
           /\ pcQueryLock = NoHolder
           /\ initialSample = TRUE
           /\ now = 0
           /\ pc = [c \in Callers |-> "idle"]
           /\ out = [c \in Callers |-> [pcpu |-> 0, rss |-> 0, vss |-> 0]]
           /\ crashed = FALSE
           /\ nOpens = 0 /\ nInitOk = 0
           /\ cur = NoCur /\ lastCall = NoCall /\ prevKind = "none"
           /\ lastStartAt = 0 /\ lastDoneAt = 0 /\ lastGood = NoGood
           /\ everFailed = FALSE /\ collects = NoCollect

\* A pending timer fires and runs periodic().
periodic ==
    /\ ~statPanic
    /\ timers > 0
    /\ \E rd \in PeriodicReads, si \in Sysinfos :
        LET r == periodicEffect(lastTotal, lastSeconds, ipcpu, rd, si)
            h == HistoryAfter(r, lastTotal, lastSeconds, nSamples, basis, lastRun)
        IN /\ lastTotal' = r.lastTotal
           /\ lastSeconds' = r.lastSeconds
           /\ ipcpu' = r.ipcpu
           /\ timers' = (timers - 1) + Successors(r.rescheduled)
           /\ statPanic' = r.panicked
           /\ sane' = (sane /\ SaneSample(r, rd, lastTotal))
           /\ nSamples' = h.nSamples
           /\ basis' = h.basis
           /\ lastRun' = h.lastRun
    /\ fresh' = FALSE
    /\ prevPcpu' = NoPcpu
    /\ statIn' = NoIn
    /\ UNCHANGED <<statOut, statRet>>
    /\ UNCHANGED counterVars

(***************************************************************************)
(* Usage (proc_linux.go)                                                   *)
(***************************************************************************)
\* (mutant) the load replaced by a read-and-reset, atomic.SwapInt64(&ipcpu, 0)
SwapIpcpu(ip) == [value |-> ip, after |-> 0]

\* atomic.LoadInt64(&ipcpu): the value read and the value left in memory
LoadIpcpu(ip) == [value |-> ip, after |-> ip]

\* float64(v) / 10.0, kept exactly as whole percent and tenths
Percent(v) == [whole |-> GoDiv(v, 10), tenths |-> GoRem(v, 10)]

\* n << 12 on int64
Shl12(n) == n * 4096

\* (mutant) the outputs are cleared when the read fails
usageEffectClearing(rd, ip, old) ==
    IF rd.err THEN [ret |-> "err", out |-> ZeroOut, ipcpu |-> 0]
    ELSE IF ~(HasField(rd.fields, rssPos) /\ HasField(rd.fields, vssPos))
    THEN [ret |-> "panic", out |-> old, ipcpu |-> ip]
    ELSE LET ld == LoadIpcpu(ip)
         IN [ret |-> "ok",
             out |-> [pcpu |-> Percent(ld.value),
                      rss |-> Shl12(parseInt64(Field(rd.fields, rssPos))),
                      vss |-> parseInt64(Field(rd.fields, vssPos))],
             ipcpu |-> ld.after]

\* One call of Usage with rd what ReadFile yields, ip the estimate and old
\* the caller's *pcpu, *rss, *vss: what it returns ("panic": an index out of
\* range aborts the process), the caller's values and the estimate after it.
usageEffect(rd, ip, old) ==
    IF rd.err THEN [ret |-> "err", out |-> old, ipcpu |-> ip]
    ELSE IF ~(HasField(rd.fields, rssPos) /\ HasField(rd.fields, vssPos))
    THEN [ret |-> "panic", out |-> old, ipcpu |-> ip]
    ELSE LET ld == LoadIpcpu(ip)
         IN [ret |-> "ok",
             out |-> [pcpu |-> Percent(ld.value),
                      rss |-> Shl12(parseInt64(Field(rd.fields, rssPos))),
                      vss |-> parseInt64(Field(rd.fields, vssPos))],
             ipcpu |-> ld.after]

UsageLinux ==
    /\ ~statPanic
    /\ UNCHANGED counterVars
    /\ \E rd \in UsageReads :
        LET r == usageEffect(rd, ipcpu, statOut)
        IN /\ statOut' = r.out
           /\ ipcpu' = r.ipcpu
           /\ statRet' = r.ret
           /\ statPanic' = (r.ret = "panic")
           /\ statIn' = IF r.ret = "ok"
                        THEN [kind |-> "ok", rss |-> Field(rd.fields, rssPos),
                              vss |-> Field(rd.fields, vssPos)]
                        ELSE [NoIn EXCEPT !.kind = r.ret]
           /\ fresh' = (fresh \/ r.ret = "ok")
           /\ prevPcpu' = IF r.ret # "ok" THEN prevPcpu
                          ELSE IF fresh THEN [none |-> FALSE, pcpu |-> statOut.pcpu]
                          ELSE NoPcpu
    /\ UNCHANGED <<lastTotal, lastSeconds, timers, nSamples, basis, lastRun, sane>>

(***************************************************************************)
(* proc_windows.go: the performance-counter session.                       *)
(*                                                                         *)
(* A double (float64) is kept in tenths: 125 is 12.5.  A PDH status is     *)
(* kept by name: "OK" is 0, "PDH_MORE_DATA" is 0x800007D2, and             *)
(* "PDH_INVALID_DATA" stands for every other non-zero status.              *)
(***************************************************************************)
maxQuerySize == 512
ThrottleSeconds == 2    \* 2 * time.Second
MyPid == 7              \* os.Getpid()

\* int(x), int64(x) of a float64: the fraction is dropped
FloatToInt(x) == GoDiv(x, 10)

Min(a, b) == IF a < b THEN a ELSE b

\* The host's instances of \Process(<image-name>*): one row per instance.
InstanceRows ==
    { [pid |-> 70, cpu |-> 125, rss |-> 10000, vss |-> 40000],
      [pid |-> 70, cpu |-> 500, rss |-> 20000, vss |-> 40000],
      [pid |-> 90, cpu |-> 990, rss |-> 30000, vss |-> 80000] }

\* the sequences of at most n distinct elements of S
RECURSIVE SeqsUpTo(_, _)
SeqsUpTo(S, n) ==
    IF n = 0 THEN {<<>>}
    ELSE LET shorter == SeqsUpTo(S, n - 1)
             longest == {t \in shorter : Len(t) = n - 1}
             ext == {p \in longest \X S : \A i \in 1..Len(p[1]) : p[1][i] # p[2]}
         IN shorter \cup {Append(p[1], p[2]) : p \in ext}

InstanceTables == SeqsUpTo(InstanceRows, MaxInstances)

\* A host with one instance more than counterResults holds; this process is
\* the first.
BigTable ==
    [i \in 1..(maxQuerySize + 1) |->
        IF i = 1 THEN [pid |-> 70, cpu |-> 125, rss |-> 10000, vss |-> 40000]
        ELSE [pid |-> 90, cpu |-> 990, rss |-> 30000, vss |-> 80000]]

Column(tbl, name) == [i \in 1..Len(tbl) |-> tbl[i][name]]

\* How PdhGetFormattedCounterArrayW answers the two calls of one array fetch.
FetchKinds == {"data", "probeErr", "fetchErr", "noData"}

\* probe, count: the status of the first call and the item count it leaves in
\* bufCount; fetch: the status of the second call; counts: the second call
\* writes the host's item count through &bufCount (otherwise it leaves the
\* count it was handed); items: the values the host has.
FetchResponse(kind, col, counts) ==
    CASE kind = "data" -> [probe |-> "PDH_MORE_DATA", count |-> Len(col), fetch |-> "OK",
                           counts |-> counts, items |-> col]
      [] kind = "fetchErr" -> [probe |-> "PDH_MORE_DATA", count |-> Len(col),
                               fetch |-> "PDH_INVALID_DATA", counts |-> counts, items |-> <<>>]
      [] kind = "probeErr" -> [probe |-> "PDH_INVALID_DATA", count |-> 0, fetch |-> "OK",
                               counts |-> counts, items |-> <<>>]
      [] kind = "noData" -> [probe |-> "OK", count |-> 0, fetch |-> "OK",
                             counts |-> counts, items |-> <<>>]

\* The answers to the four fetches of one Usage call: at most one is not "data".
AllData == [k \in 1..4 |-> "data"]

FetchPlan(bad, kind) == [k \in 1..4 |-> IF k = bad THEN kind ELSE "data"]

\* What the host can answer to lines 203-219 of Usage: the collection fails;
\* or it succeeds on some instance table and the fetches return the columns,
\* or one fetch returns no data (on a host with at most one instance), or one
\* fetch fails.  With at most maxQuerySize instances the count the second
\* call leaves is the same either way; on the big host it is not.
SampleOutcomes ==
    {[collectOk |-> FALSE, tbl |-> <<>>, plan |-> AllData, counts |-> FALSE]} \cup
    {[collectOk |-> TRUE, tbl |-> t, plan |-> AllData, counts |-> TRUE] : t \in InstanceTables} \cup
    {[collectOk |-> TRUE, tbl |-> BigTable, plan |-> AllData, counts |-> b] : b \in BOOLEAN} \cup
    {[collectOk |-> TRUE, tbl |-> t, plan |-> FetchPlan(bad, "noData"), counts |-> TRUE] :
        t \in {u \in InstanceTables : Len(u) <= 1}, bad \in 1..4} \cup
    {[collectOk |-> TRUE, tbl |-> <<>>, plan |-> FetchPlan(bad, kind), counts |-> TRUE] :
        bad \in 1..4, kind \in {"probeErr", "fetchErr"}}

\* getCounterArrayData: probe with a one-element buffer, then fetch into
\* counterResults with the count capped at maxQuerySize.
\* data: the array rv was made and filled; panicked: the copy loop indexed
\* counterResults, an array of maxQuerySize items, out of range.
getCounterArrayData(resp) ==
    IF resp.probe = "PDH_MORE_DATA"
    THEN LET capped == Min(resp.count, maxQuerySize)
             bufCount == IF resp.counts THEN resp.count ELSE capped
         IN IF resp.fetch # "OK"
            THEN [err |-> TRUE, ary |-> <<>>, data |-> FALSE, panicked |-> FALSE]
            ELSE IF bufCount > maxQuerySize
            THEN [err |-> FALSE, ary |-> <<>>, data |-> FALSE, panicked |-> TRUE]
            ELSE [err |-> FALSE, ary |-> SubSeq(resp.items, 1, bufCount),
                  data |-> TRUE, panicked |-> FALSE]
    ELSE IF resp.probe # "OK"
    THEN [err |-> TRUE, ary |-> <<>>, data |-> FALSE, panicked |-> FALSE]
    ELSE [err |-> FALSE, ary |-> <<>>, data |-> FALSE, panicked |-> FALSE]

\* initCounters with `fail` the first step that fails ("none": all succeed) and
\* h the handle a successful PdhOpenQuery returns.
InitSteps == {"none", "open", "addPid", "addCpu", "addRss", "addVss", "collect"}

initCounters(fail, h, oldHandle, oldCounters) ==
    IF fail = "open"
    THEN [err |-> TRUE, pcHandle |-> oldHandle, counters |-> oldCounters, opened |-> FALSE]
    ELSE LET added(name, failing) ==
                 IF fail \in failing THEN oldCounters[name] ELSE h
         IN [err |-> fail # "none",
             pcHandle |-> h,
             counters |-> [pid |-> added("pid", {"addPid"}),
                           cpu |-> added("cpu", {"addPid", "addCpu"}),
                           rss |-> added("rss", {"addPid", "addCpu", "addRss"}),
                           vss |-> added("vss", {"addPid", "addCpu", "addRss", "addVss"})],
             opened |-> TRUE]

\* (mutant) the flag is cleared whether or not initCounters succeeded
AfterInitCleared(err) == FALSE

\* (mutant) the flag is never cleared
AfterInitKept(err) == TRUE

\* lines 188-191: initialSample after initCounters returned err
AfterInit(err) == err

\* (mutant) a window that includes its end point
ThrottledInclusive(t, last) == t - last <= ThrottleSeconds

\* (mutant) a window of one second
ThrottledOneSecond(t, last) == t - last < 1

\* line 192: time.Since(lastSampleTime) < 2 * time.Second
Throttled(t, last) == t - last < ThrottleSeconds

\* (mutant) a mutex that never blocks
CanLockAlways == TRUE

\* pcQueryLock.Lock() returns only when the mutex is free
CanLock == pcQueryLock = NoHolder

\* (mutant) the loop keeps the last match
FindPidLast(pidAry, ppid) ==
    LET hits == {i \in 1..Len(pidAry) : FloatToInt(pidAry[i]) = ppid}
    IN IF hits = {} THEN 0 ELSE CHOOSE i \in hits : \A k \in hits : i >= k

\* lines 220-226: the first index whose PID equals processPid, 0 when none
\* (Go's idx + 1)
FindPid(pidAry, ppid) ==
    LET hits == {i \in 1..Len(pidAry) : FloatToInt(pidAry[i]) = ppid}
    IN IF hits = {} THEN 0 ELSE CHOOSE i \in hits : \A k \in hits : i <= k

\* One array fetch, for the history: what the host answered and what
\* getCounterArrayData made of it.
FetchSeen(resp, res) ==
    [probe |-> resp.probe, count |-> resp.count, fetch |-> resp.fetch,
     err |-> res.err, panicked |-> res.panicked, len |-> Len(res.ary)]

\* lines 203-238 of Usage: one collection, the four fetches, the lookup.
\* kind: how the call ends; pcpu, rss, vss: what lines 230-232 assign (kind
\* "sampled" only).  For the history: clean (the four fetches returned the
\* arrays of the collection), pidPresent (the PID array holds processPid),
\* fetch (the last array fetch the call made).
usageSample(collectOk, tbl, plan, counts, ppid) ==
    LET resp == [k \in 1..4 |->
                    FetchResponse(plan[k],
                                  Column(tbl, <<"pid", "cpu", "rss", "vss">>[k]), counts)]
        res == [k \in 1..4 |-> getCounterArrayData(resp[k])]
        stops == {k \in 1..4 : res[k].err \/ res[k].panicked}
        first == IF stops = {} THEN 4 ELSE CHOOSE k \in stops : \A j \in stops : k <= j
        idx == FindPid(res[1].ary, ppid)
        kind == IF ~collectOk THEN "collect_failed"
                ELSE IF stops # {}
                THEN (IF res[first].panicked THEN "panic" ELSE "fetch_failed")
                ELSE IF idx = 0 THEN "pid_not_found"
                ELSE IF idx > Len(res[2].ary) \/ idx > Len(res[3].ary) \/ idx > Len(res[4].ary)
                THEN "panic"
                ELSE "sampled"
    IN [kind |-> kind,
        pcpu |-> IF kind = "sampled" THEN res[2].ary[idx] ELSE 0,
        rss |-> IF kind = "sampled" THEN FloatToInt(res[3].ary[idx]) ELSE 0,
        vss |-> IF kind = "sampled" THEN FloatToInt(res[4].ary[idx]) ELSE 0,
        clean |-> collectOk /\ \A k \in 1..4 : res[k].data,
        pidPresent |-> collectOk /\ res[1].data /\ idx > 0,
        fetch |-> IF collectOk THEN FetchSeen(resp[first], res[first]) ELSE NoFetch]

\* usageSample on every answer of the host, for either value of processPid
\* (0 before initCounters, MyPid after).
SampleResults ==
    [ppid \in {0, MyPid} |->
        [o \in SampleOutcomes |-> usageSample(o.collectOk, o.tbl, o.plan, o.counts, ppid)]]

\* (mutant) an error return clears the values
OnErrorCleared(old) == [pcpu |-> 0, rss |-> 0, vss |-> 0]

\* lines 204-229: an error return assigns nothing; old stays
OnError(old) == old

InitCounter ==
    /\ pcHandle = 0
    /\ counters = [pid |-> 0, cpu |-> 0, rss |-> 0, vss |-> 0]
    /\ prevCPU = 0 /\ prevRss = 0 /\ prevVss = 0
    /\ lastSampleTime = ZeroTime
    /\ processPid = 0
    /\ pcQueryLock = NoHolder
    /\ initialSample = TRUE
    /\ now = 0
    /\ pc = [c \in Callers |-> "idle"]
    /\ out = [c \in Callers |-> [pcpu |-> 0, rss |-> 0, vss |-> 0]]
    /\ crashed = FALSE
    /\ nOpens = 0
    /\ nInitOk = 0
    /\ cur = NoCur
    /\ lastCall = NoCall
    /\ prevKind = "none"
    /\ lastStartAt = 0
    /\ lastDoneAt = 0
    /\ lastGood = NoGood
    /\ everFailed = FALSE
    /\ collects = NoCollect
    \* a build without proc_linux.go
    /\ lastTotal = 0 /\ lastSeconds = 0 /\ ipcpu = 0 /\ timers = 0
    /\ statOut = ZeroOut /\ statRet = "none" /\ statPanic = FALSE
    /\ statIn = NoIn /\ sane = TRUE
    /\ nSamples = 0 /\ basis = NoBasis /\ lastRun = NoRun
    /\ fresh = FALSE /\ prevPcpu = NoPcpu

\* The clock advances.
Tick ==
    /\ now < MaxTime
    /\ UNCHANGED statVars
    /\ now' = now + 1
    /\ UNCHANGED <<pcHandle, counters, prevCPU, prevRss, prevVss, lastSampleTime,
                   processPid, pcQueryLock, initialSample, pc, out, crashed,
                   nOpens, nInitOk, cur, lastCall, prevKind, lastStartAt, lastDoneAt, lastGood, everFailed, collects>>

\* What the call's first step sees, for the history.
\* inWindow: less than 2 s after the return of the latest successful sample;
\* gap2: at least 2 s after the return of the call before; near: less than
\* 2 s after the call before was made.
Seen(ran) ==
    [startAt |-> now,
     ranInit |-> ran,
     inWindow |-> ~lastGood.none /\ now - lastGood.doneAt < ThrottleSeconds,
     gap2 |-> lastCall.kind # "none" /\ now - lastDoneAt >= ThrottleSeconds,
     near |-> lastCall.kind # "none" /\ now - lastStartAt < ThrottleSeconds]

\* The history of a call that returns: what its first step saw, how it ended,
\* the caller's outputs at the return.
\* kept: the call left the caller's outputs and the cache as they were; tbl:
\* the instances of the collection (successful samples only).
Call(seen, kind, snap, collected, clean, pidPresent, kept, tbl, fetch) ==
    [kind |-> kind,
     ret |-> IF kind \in {"throttled", "sampled"} THEN "ok"
             ELSE IF kind = "panic" THEN "panic" ELSE "err",
     snap |-> snap, collected |-> collected, ranInit |-> seen.ranInit,
     inWindow |-> seen.inWindow, gap2 |-> seen.gap2, near |-> seen.near,
     same |-> lastCall.ret = "ok" /\ snap = lastCall.snap,
     clean |-> clean, pidPresent |-> pidPresent,
     kept |-> kept, tbl |-> tbl, fetch |-> fetch]

\* The history of the collections after one more, made now: ok (it
\* succeeded), init (by a call that ran initCounters).
Collected(col, ok, init) ==
    [n |-> IF col.n < 2 THEN col.n + 1 ELSE 2,
     at |-> now,
     gap |-> IF col.n = 0 THEN 0 ELSE now - col.at,
     ok |-> ok,
     bothOk |-> col.n > 0 /\ col.ok /\ ok,
     inInitCall |-> init]

\* Caller c returns: the deferred Unlock, and the history of the call.
Return(c, seen, call) ==
    /\ pcQueryLock' = NoHolder
    /\ pc' = [pc EXCEPT ![c] = "idle"]
    /\ lastCall' = call
    /\ prevKind' = lastCall.kind
    /\ lastStartAt' = seen.startAt
    /\ lastDoneAt' = now
    /\ cur' = NoCur

\* lines 184-191: the lock is taken; the session is not initialised,
\* initCounters runs.
UsageInit(c) ==
    /\ ~crashed
    /\ UNCHANGED statVars
    /\ pc[c] = "idle" /\ CanLock
    /\ initialSample
    /\ \E fail \in (IF nOpens < MaxOpens THEN InitSteps ELSE {"open"}) :
        LET r == initCounters(fail, nOpens + 1, pcHandle, counters)
            seen == Seen(TRUE)
        IN /\ processPid' = MyPid
           /\ pcHandle' = r.pcHandle
           /\ counters' = r.counters
           /\ nOpens' = IF r.opened THEN nOpens + 1 ELSE nOpens
           /\ initialSample' = AfterInit(r.err)
           /\ collects' = IF fail \in {"none", "collect"}
                          THEN Collected(collects, fail = "none", TRUE)
                          ELSE collects
           /\ IF r.err
              THEN /\ Return(c, seen, Call(seen, "init_failed", out[c], fail = "collect",
                                          FALSE, FALSE, TRUE, <<>>, NoFetch))
                   /\ UNCHANGED nInitOk
              ELSE /\ pcQueryLock' = c
                   /\ pc' = [pc EXCEPT ![c] = "sampling"]
                   /\ cur' = seen
                   /\ nInitOk' = nInitOk + 1
                   /\ UNCHANGED <<lastCall, prevKind, lastStartAt, lastDoneAt>>
    /\ UNCHANGED <<prevCPU, prevRss, prevVss, lastSampleTime, now, out, crashed,
                   lastGood, everFailed>>

\* lines 184-197: the lock is taken; initialised and inside the window, the
\* cached snapshot is returned.
UsageThrottled(c) ==
    /\ ~crashed
    /\ UNCHANGED statVars
    /\ pc[c] = "idle" /\ CanLock
    /\ ~initialSample
    /\ Throttled(now, lastSampleTime)
    /\ out' = [out EXCEPT ![c] = [pcpu |-> prevCPU, rss |-> prevRss, vss |-> prevVss]]
    /\ Return(c, Seen(FALSE), Call(Seen(FALSE), "throttled", out'[c], FALSE, FALSE, FALSE,
                                   out'[c] = out[c], <<>>, NoFetch))
    /\ UNCHANGED <<pcHandle, counters, prevCPU, prevRss, prevVss, lastSampleTime,
                   processPid, initialSample, now, crashed, nOpens, nInitOk,
                   lastGood, everFailed, collects>>

\* lines 184-192: the lock is taken; initialised and outside the window, on
\* to a new sample.
UsageProceed(c) ==
    /\ ~crashed
    /\ UNCHANGED statVars
    /\ pc[c] = "idle" /\ CanLock
    /\ ~initialSample
    /\ ~Throttled(now, lastSampleTime)
    /\ pcQueryLock' = c
    /\ pc' = [pc EXCEPT ![c] = "sampling"]
    /\ cur' = Seen(FALSE)
    /\ UNCHANGED <<pcHandle, counters, prevCPU, prevRss, prevVss, lastSampleTime,
                   processPid, initialSample, now, out, crashed,
                   nOpens, nInitOk, lastCall, prevKind, lastStartAt, lastDoneAt, lastGood, everFailed, collects>>

\* lines 199-238: the deferred lastSampleTime = time.Now(), the collection,
\* the four arrays, the lookup, the outputs and the cache.
UsageSample(c) ==
    /\ ~crashed
    /\ UNCHANGED statVars
    /\ pc[c] = "sampling"
    /\ \E o \in SampleOutcomes :
        LET r == SampleResults[processPid][o]
            good == r.kind = "sampled"
            cache == [pcpu |-> prevCPU, rss |-> prevRss, vss |-> prevVss]
            snap == IF good THEN [pcpu |-> r.pcpu, rss |-> r.rss, vss |-> r.vss]
                    ELSE OnError(out[c])
            cached == IF good THEN snap ELSE OnError(cache)
        IN /\ out' = [out EXCEPT ![c] = snap]
           /\ prevCPU' = cached.pcpu
           /\ prevRss' = cached.rss
           /\ prevVss' = cached.vss
           /\ lastSampleTime' = now
           /\ crashed' = (r.kind = "panic")
           /\ lastGood' = IF good THEN [none |-> FALSE, doneAt |-> now, snap |-> snap]
                          ELSE lastGood
           /\ everFailed' = (everFailed \/ ~good)
           /\ collects' = Collected(collects, o.collectOk, cur.ranInit)
           /\ Return(c, cur, Call(cur, r.kind, snap, TRUE, r.clean, r.pidPresent,
                                  snap = out[c] /\ cached = cache,
                                  IF good THEN o.tbl ELSE <<>>, r.fetch))
    /\ UNCHANGED <<pcHandle, counters, processPid, initialSample, now, nOpens, nInitOk>>

NextCounter ==
    \/ Tick
    \/ \E c \in Callers : UsageInit(c)
    \/ \E c \in Callers : UsageThrottled(c)
    \/ \E c \in Callers : UsageProceed(c)
    \/ \E c \in Callers : UsageSample(c)

(***************************************************************************)
(* The specifications: one per backend (a build holds only one of them).   *)
(***************************************************************************)
NextStat == periodic \/ UsageLinux

SpecStat == InitStat /\ [][NextStat]_vars

SpecCounter == InitCounter /\ [][NextCounter]_vars

(***************************************************************************)
(* Claims about the StatSampler                                            *)
(***************************************************************************)
\* q is n / d as Go computes it on integers: the quotient truncated toward zero
IsTruncQuot(n, d, q) ==
    LET r == n - q * d
    IN Abs(r) < Abs(d) /\ (r = 0 \/ (r > 0) = (n > 0))

\* p is the float v / 10.0
IsTenth(p, v) == p.whole * 10 + p.tenths = v /\ Abs(p.tenths) < 10 /\
                 (p.tenths = 0 \/ (p.tenths > 0) = (v > 0))

\* C3 (as claimed): every execution of the periodic task schedules its next
\* execution, also when its read of the stat file or of the uptime fails, so
\* an execution is pending at all times.
C3_AlwaysRescheduled == timers >= 1

\* C4: two Usage calls with no periodic execution between them return the
\* same cpu_percent (Usage only loads the estimate).
C4_SameTickSamePcpu ==
    (fresh /\ ~prevPcpu.none) => statOut.pcpu = prevPcpu.pcpu

C4_Witness ==
    fresh /\ ~prevPcpu.none /\ statRet = "ok" /\ statOut.pcpu.whole # 0

\* C5: after a periodic tick whose elapsed seconds are > 0 the estimate is
\* (delta_total * 1000 / 100) / delta_seconds in integer division, and a Usage
\* call made then reports a tenth of it; delta_total = 200 and
\* delta_seconds = 2 give 1000 and cpu_percent 100.0.
C5_CpuFormula ==
    (lastRun.sampled /\ lastRun.dSeconds > 0) =>
        /\ IsTruncQuot(lastRun.dTotal * 10, lastRun.dSeconds, ipcpu)
        /\ fresh => IsTenth(statOut.pcpu, ipcpu)
        /\ (lastRun.dTotal = 200 /\ lastRun.dSeconds = 2) =>
              /\ ipcpu = 1000
              /\ fresh => statOut.pcpu = [whole |-> 100, tenths |-> 0]

C5_Witness ==
    /\ lastRun.sampled /\ lastRun.dTotal = 200 /\ lastRun.dSeconds = 2
    /\ fresh /\ statOut.pcpu.whole = 100

\* C6 (as claimed): until the periodic task has taken two samples the estimate
\* is not updated and Usage reports cpu_percent 0, whatever the process's age
\* and accumulated ticks at the first tick.
C6_FirstSampleZero ==
    nSamples <= 1 => (ipcpu = 0 /\ (fresh => statOut.pcpu = [whole |-> 0, tenths |-> 0]))

\* C6 (amended): with no sample the estimate is 0; after the first sample
\* alone it is 0 only when the process's age in whole seconds at that tick is
\* <= 0, and otherwise the lifetime average (total * 1000 / 100) / age; Usage
\* reports a tenth of it.
C6_FirstSampleLifetimeAverage ==
    nSamples <= 1 =>
        /\ IF nSamples = 1 /\ lastSeconds > 0
           THEN IsTruncQuot(lastTotal * 10, lastSeconds, ipcpu)
           ELSE ipcpu = 0
        /\ fresh => IsTenth(statOut.pcpu, ipcpu)

C6_Witness ==
    nSamples = 1 /\ lastSeconds > 0 /\ lastTotal > 0 /\ ipcpu # 0 /\ fresh

\* C7 (as claimed): once two samples exist, the estimate is at every moment
\* the value computed from the two most recent samples, also after a tick
\* whose elapsed seconds were zero or negative.
C7_TwoMostRecentSamples ==
    nSamples = 2 => IsTruncQuot(lastRun.dTotal * 10, lastRun.dSeconds, ipcpu)

\* C7 (amended): the estimate is at every moment the value computed at the
\* latest tick whose elapsed seconds were > 0, from that tick's sample and the
\* one before it (0 when there was no such tick); a tick whose elapsed seconds
\* are <= 0 and a tick whose read fails leave it as it was.
C7_LatestPositivePair ==
    IF basis.none THEN ipcpu = 0
    ELSE IsTruncQuot(basis.dTotal * 10, basis.dSeconds, ipcpu)

C7_Witness ==
    /\ nSamples = 2 /\ lastRun.sampled /\ lastRun.dSeconds <= 0
    /\ ~basis.none /\ ipcpu # 0 /\ basis.dTotal # lastRun.dTotal

\* C12: a stat field that is empty or holds a byte outside '0'..'9' parses to
\* -1 without an error, so a Usage call whose record has such an RSS field
\* returns success with rss -1 << 12 = -4096 and the other outputs as usual.
C12_SoftParseFailure ==
    /\ \A d \in {<<>>, Garbled, <<asciiZero - 1>>, <<asciiNine + 1>>,
                 <<asciiZero, asciiNine + 1, asciiZero>>} : parseInt64(d) = -1
    /\ (statIn.kind = "ok" /\ ~IsDecimal(statIn.rss)) =>
           /\ statRet = "ok"
           /\ statOut.rss = -4096
           /\ statIn.vss = Digits(8192) => statOut.vss = 8192
           /\ IsTenth(statOut.pcpu, ipcpu)

C12_Witness ==
    /\ statIn.kind = "ok" /\ statIn.rss = Garbled /\ statRet = "ok"
    /\ statOut.rss = -4096 /\ statOut.vss = 8192 /\ statOut.pcpu.whole # 0

\* C13: a Usage call whose read of the stat file fails returns the error and
\* changes neither the caller's three outputs nor the sampler's state (the
\* estimate, the last sample, the pending timer).
C13_ReadFailureFrame ==
    [][statIn'.kind = "err" =>
          /\ statRet' = "err"
          /\ statOut' = statOut
          /\ ipcpu' = ipcpu /\ lastTotal' = lastTotal /\ lastSeconds' = lastSeconds
          /\ timers' = timers]_vars

C13_Witness ==
    /\ statIn.kind = "err" /\ statRet = "err"
    /\ statOut.rss # 0 /\ statOut.pcpu.whole # 0 /\ ipcpu # 0

\* C18: at most one execution of periodic is pending at any time (an execution
\* runs when its timer fires and starts its successor as its last statement),
\* so lastTotal and lastSeconds are never used by two executions at once.
C18_SingleWriterChain == timers <= 1

C18_Witness == timers = 1 /\ nSamples = 2 /\ lastRun.sampled /\ statRet = "ok"

\* C20: when every sample was well-formed and no sample's total was below the
\* total of the sample before it, the estimate is not negative, and neither is
\* the cpu_percent a Usage call reports.
C20_EstimateNonNegative ==
    sane => /\ ipcpu >= 0
            /\ fresh => (statOut.pcpu.whole >= 0 /\ statOut.pcpu.tenths >= 0)

C20_Witness ==
    sane /\ nSamples = 2 /\ lastRun.dSeconds < 0 /\ ipcpu > 0 /\ fresh /\ statOut.pcpu.whole > 0

(***************************************************************************)
(* Claims about the CounterSession                                         *)
(***************************************************************************)
\* C1 (as claimed): of two Usage calls made less than 2 seconds apart, the
\* later one performs no new collection and returns the same snapshot as the
\* earlier one (here: when the earlier one returned a snapshot, and no sample
\* has failed so far).
C1_AnyTwoCallsWithinTwoSeconds ==
    (~everFailed /\ lastCall.near /\ prevKind \in {"throttled", "sampled"}) =>
        (lastCall.kind = "throttled" /\ lastCall.same)

\* C1 (amended): a Usage call whose window check runs less than 2 seconds
\* after the return of the latest successful sample performs no collection
\* and returns exactly the snapshot that sample returned.
C1_ThrottleAfterSample ==
    lastCall.inWindow =>
        /\ lastCall.kind = "throttled" /\ lastCall.ret = "ok" /\ ~lastCall.collected
        /\ lastCall.snap = lastGood.snap

C1_Witness ==
    /\ lastCall.inWindow /\ lastCall.kind = "throttled" /\ prevKind = "sampled"
    /\ lastCall.snap.rss # 0 /\ now - lastGood.doneAt = 1

\* C2 (as claimed): a Usage call that returns success without collecting
\* returns the values written by the latest successful sample, less than 2
\* seconds after that sample; after a failed sample no call returns success
\* with values that no successful sample produced.
C2_CacheFromSuccessfulSample ==
    lastCall.kind = "throttled" =>
        (~lastGood.none /\ lastCall.snap = lastGood.snap /\ lastCall.inWindow)

\* C8: at most one Usage call at a time is between its lock acquisition and
\* its return, and that call holds pcQueryLock.
C8_MutualExclusion ==
    /\ Cardinality({c \in Callers : pc[c] # "idle"}) <= 1
    /\ \A c \in Callers : pc[c] # "idle" => pcQueryLock = c

C8_Witness ==
    \E c, d \in Callers :
        c # d /\ pc[c] = "sampling" /\ out[d].rss # 0 /\ lastCall.kind = "throttled"

\* C9: a Usage call in which a step of initCounters fails returns the error
\* and leaves the session uninitialised; the next call runs initCounters
\* again, however soon it comes; after initCounters has succeeded it is not
\* run again.
C9_InitRetry ==
    /\ (lastCall.kind = "init_failed" /\ pcQueryLock = NoHolder) =>
           (lastCall.ret = "err" /\ initialSample)
    /\ (prevKind = "init_failed" /\ lastCall.kind # "none") => lastCall.ranInit
    /\ nInitOk <= 1
    /\ (lastCall.kind = "init_failed" /\ pcQueryLock = NoHolder) => nInitOk = 0

C9_Witness ==
    /\ prevKind = "init_failed" /\ lastCall.ranInit /\ lastCall.kind = "sampled"
    /\ lastCall.near /\ now = 0 /\ nInitOk = 1

\* C10: a Usage call whose collected PID array holds no entry equal to the
\* caller's PID returns an error; the next Usage call, when made at least 2
\* seconds after that return, performs a new collection, and succeeds when
\* the collection and the four fetches succeed and the PID is present.
C10_PidNotFoundRecovery ==
    /\ (lastCall.kind \in {"sampled", "pid_not_found"} /\ ~lastCall.pidPresent) =>
           (lastCall.kind = "pid_not_found" /\ lastCall.ret = "err")
    /\ (prevKind = "pid_not_found" /\ lastCall.gap2) =>
           /\ lastCall.collected
           /\ (lastCall.clean /\ lastCall.pidPresent) =>
                  (lastCall.kind = "sampled" /\ lastCall.ret = "ok")

C10_Witness ==
    /\ prevKind = "pid_not_found" /\ lastCall.gap2 /\ ~lastCall.ranInit
    /\ lastCall.kind = "sampled" /\ lastCall.ret = "ok" /\ lastCall.snap.rss # 0
    /\ now = lastStartAt /\ lastStartAt = 3

\* C11 (as claimed): whatever the stat file and the counters deliver, Usage
\* and periodic return; no index out of range aborts the process.
C11_NoFatalPath == ~crashed /\ ~statPanic

\* C14 (as claimed): the session performs at most one counter collection in
\* any 2-second interval, the first call included (here: two collections that
\* both succeeded are at least 2 seconds apart).
C14_OneCollectionPerInterval ==
    (collects.n = 2 /\ collects.bothOk) => collects.gap >= ThrottleSeconds

\* C14 (amended): a collection made by a Usage call that does not run
\* initCounters comes at least 2 seconds after the collection before it,
\* successful or not.
C14_ThrottledRefresh ==
    (collects.n = 2 /\ ~collects.inInitCall) => collects.gap >= ThrottleSeconds

C14_Witness ==
    /\ collects.n = 2 /\ ~collects.inInitCall /\ collects.gap = ThrottleSeconds
    /\ collects.bothOk /\ lastCall.kind = "sampled" /\ prevKind = "throttled"

\* C15: once initCounters has succeeded and initialSample is cleared, no step
\* of any Usage call opens a query or assigns pcHandle or one of the four
\* counter handles.
C15_HandleStability ==
    [][(~initialSample \/ nInitOk >= 1) =>
          (pcHandle' = pcHandle /\ counters' = counters /\ nOpens' = nOpens)]_vars

C15_Witness ==
    /\ ~initialSample /\ nInitOk = 1 /\ pcHandle # 0 /\ counters.vss = pcHandle
    /\ prevKind = "sampled" /\ lastCall.kind = "fetch_failed" /\ ~lastCall.ranInit

\* C16: a Usage call that samples successfully returns the CPU, RSS and VSS
\* entries at the first index whose PID entry is the caller's PID, all from the
\* instances of its one collection, and stores the same values as the cache.
C16_Demultiplexing ==
    lastCall.kind = "sampled" =>
        \E i \in 1..Len(lastCall.tbl) :
            /\ lastCall.tbl[i].pid \div 10 = MyPid
            /\ \A j \in 1..(i - 1) : lastCall.tbl[j].pid \div 10 # MyPid
            /\ lastCall.snap = [pcpu |-> lastCall.tbl[i].cpu,
                                rss |-> lastCall.tbl[i].rss \div 10,
                                vss |-> lastCall.tbl[i].vss \div 10]
            /\ <<prevCPU, prevRss, prevVss>> =
                   <<lastCall.snap.pcpu, lastCall.snap.rss, lastCall.snap.vss>>

C16_Witness ==
    /\ lastCall.kind = "sampled" /\ Len(lastCall.tbl) = 2
    /\ lastCall.tbl[1].pid \div 10 # MyPid /\ lastCall.tbl[2].pid \div 10 = MyPid
    /\ prevCPU = lastCall.tbl[2].cpu /\ prevCPU # 0

\* C17 (as claimed): an array fetch returns; it returns an error exactly when
\* the last status it obtained is not zero; after a "more data" probe and a
\* successful second call the array has the probe's count capped at 512 as its
\* length; no array has more than 512 entries.
C17_FetchProtocol ==
    LET f == lastCall.fetch
        final == IF f.probe = "PDH_MORE_DATA" THEN f.fetch ELSE f.probe
    IN f.probe # "none" =>
        /\ ~f.panicked
        /\ f.err <=> final # "OK"
        /\ (f.probe = "PDH_MORE_DATA" /\ f.fetch = "OK") =>
               f.len = (IF f.count > 512 THEN 512 ELSE f.count)
        /\ f.len <= 512

\* C19: a Usage call that returns an error leaves the caller's three outputs
\* and the cached snapshot as they were before the call.
C19_FailureFrame == lastCall.ret = "err" => lastCall.kept

C19_Witness ==
    /\ lastCall.ret = "err" /\ lastCall.kind = "pid_not_found" /\ lastCall.kept
    /\ prevCPU # 0 /\ lastCall.snap.rss # 0 /\ prevKind = "sampled"

====
